---- MODULE Spec2Model ----
(***************************************************************************)
(* Model of the 3D-printer timelapse post-processor                        *)
(* (printer_timelapse_generator.py): log aggregation, stability filter,    *)
(* initial frame extraction, corruption detection and recovery, framerate  *)
(* planning and assembly; and of the monitor (timelapse_monitor.py) that   *)
(* waits for the print to start, records the video and writes the log.     *)
(*                                                                         *)
(* Units.  Z readings of the log are integers in 1e-4 mm; layer keys       *)
(* (readings rounded to 3 decimals) are integers in 1e-3 mm; timestamps of *)
(* the log are integers; timestamps handed to the extractor are kept       *)
(* doubled (ts2 = 2 * seconds) so that the midpoint start + (end-start)/2  *)
(* stays an integer.  Sizes are bytes.  The corruption ratio is kept in    *)
(* percent and the median doubled, so that size < median * ratio is the    *)
(* exact comparison size * 200 < median2 * ratioPct.  The readings and     *)
(* sizes the inputs are drawn from are values on which the program's       *)
(* binary floating point arithmetic agrees with this exact arithmetic.     *)
(***************************************************************************)
EXTENDS Integers, Sequences, FiniteSets, TLC

VARIABLES
    pc,                      \* position of the run in __main__ / process_logs_and_extract_frames
    log,                     \* rows of print_log.csv, in file order
    logExists,               \* os.path.exists(LOG_FILE_PATH)
    videoExists,             \* os.path.exists(RECORDED_VIDEO_PATH)
    logReadable,             \* FALSE: opening or reading the log raises
    config,                  \* the values read from config.json
    frameDirExists,          \* os.path.exists(frame_output_dir)
    disk,                    \* frame files: slot index -> size in bytes (DOMAIN = files present)
    disk0,                   \* the frame files present when the run started
    frames_exist,            \* result of check_existing_frames
    layer_timestamps_raw,    \* key -> sequence of timestamps
    stable_layer_timestamps, \* the filtered subset
    last_z,                  \* last accepted key of the filter walk
    zi,                      \* number of keys the filter walk has examined
    frame_count,             \* slots attempted by the initial pass
    frame_paths,             \* sorted listing of the frame files at detection time
    filesizes,               \* their sizes at detection time
    median2,                 \* twice statistics.median(filesizes); -1 before detection
    fi,                      \* loop index i of the detection loop (0-based)
    attempt_idx,             \* loop index of the retry loop (0-based)
    last_frame,              \* slot of the last frame, 0 for None
    num_frames,              \* frame files counted for the framerate
    final_framerate,         \* clamped framerate, -1 before planning
    assembly,                \* "none", "ok", "failed": outcome of the assembly service
    signal,                  \* what the run reported: "none", "no_data", "no_replacement"
    exitCode,                \* -1 while running, else the exit status of the process
    calls,                   \* history of the extraction calls made by this run
    prevRun,                 \* how the previous run of the process ended, if any
    mpc,                     \* position of the monitor in run_monitor, "off" when it is not run
    status,                  \* result of the last fetch_printer_status, NoStatus for None
    required_bed_temp,       \* bed target in force (degrees C)
    required_nozzle_temp,    \* nozzle target in force (degrees C)
    recording,               \* the video process is running
    print_log,               \* rows of print_log.csv on disk, in file order
    print_log_exists,        \* os.path.exists(LOG_FILE_PATH)
    log_buffer,              \* rows written to log_file and not flushed yet
    elapsed,                 \* data rows this monitor run has written (its clock)
    started,                 \* history: the poll and targets recording was started on
    runs                     \* monitor runs started so far on this session directory

vars == << pc, log, logExists, videoExists, logReadable, config, frameDirExists,
           disk, disk0, frames_exist, layer_timestamps_raw, stable_layer_timestamps,
           last_z, zi, frame_count, frame_paths, filesizes, median2, fi,
           attempt_idx, last_frame, num_frames, final_framerate, assembly, signal,
           exitCode, calls, prevRun, mpc, status, required_bed_temp,
           required_nozzle_temp, recording, print_log, print_log_exists,
           log_buffer, elapsed, started, runs >>

\* the variables of the post-processor
generatorVars ==
    << pc, log, logExists, videoExists, logReadable, config, frameDirExists,
       disk, disk0, frames_exist, layer_timestamps_raw, stable_layer_timestamps,
       last_z, zi, frame_count, frame_paths, filesizes, median2, fi,
       attempt_idx, last_frame, num_frames, final_framerate, assembly, signal,
       exitCode, calls, prevRun >>

\* the variables of the monitor
monitorVars == << mpc, status, required_bed_temp, required_nozzle_temp, recording,
                  print_log, print_log_exists, log_buffer, elapsed, started, runs >>

-----------------------------------------------------------------------------
(* Bounds of the inputs.                                                   *)

\* longest log of the pipeline specification
MaxLog == 3
\* longest log of the aggregation specification
MaxAggLog == 3
\* most polls of a monitor run that log a print still going on
MaxPolls == 2
\* most monitor runs on one session directory
MaxMonitorRuns == 2

\* a cell float() rejects (ValueError, KeyError, TypeError)
NonNumeric == 999999

\* Z readings (1e-4 mm) of the pipeline's logs: 0.2, 0.8, 1.5
PipelineReadings == {2000, 8000, 15000}
\* Z readings (1e-4 mm) of the aggregation's logs
AggReadings == {0, 1000, 2000, 2004, 2006, 8000, 15000}

\* sizes (bytes) an extracted image can have: empty, small, exactly 0.88 * 25, full
Sizes == {0, 10, 22, 25}

-----------------------------------------------------------------------------
(* Helpers                                                                 *)

EmptyMap == [k \in {} |-> <<>>]

MinOf(S) == CHOOSE x \in S : \A y \in S : x <= y
MaxOf(S) == CHOOSE x \in S : \A y \in S : x >= y

RECURSIVE SortedSeq(_)
\* sorted(...) of a set of integers
SortedSeq(S) ==
    IF S = {} THEN <<>>
    ELSE LET m == MinOf(S) IN <<m>> \o SortedSeq(S \ {m})

\* C13 mutant: the reading is truncated to 3 decimals, not rounded
Round3Mut(zraw) == zraw \div 10
\* round(float(row['Z']), 3): nearest multiple of 1e-3 mm, ties to even
Round3(zraw) ==
    LET q == zraw \div 10
        r == zraw % 10
    IN  IF r < 5 THEN q
        ELSE IF r > 5 THEN q + 1
        ELSE IF q % 2 = 0 THEN q ELSE q + 1

\* a log whose i-th row was written at time i with reading zs[i]
LogOf(zs) ==
    [i \in 1..Len(zs) |->
        IF zs[i] = NonNumeric
        THEN [ok |-> FALSE, ts |-> i, z |-> 0]
        ELSE [ok |-> TRUE, ts |-> i, z |-> zs[i]]]

\* a log two monitor sessions appended to: the first b rows were written by
\* the first session, and the second session's clock starts again (b = 0: one
\* session)
SessionLog(zs, b) ==
    [i \in 1..Len(zs) |->
        [LogOf(zs)[i] EXCEPT !.ts = IF i <= b THEN i ELSE i - b]]

LogsOver(readings, maxLen) ==
    UNION { {LogOf(zs) : zs \in [1..n -> readings \cup {NonNumeric}]} : n \in 0..maxLen }

RECURSIVE ReadRows(_, _, _)
\* the csv.DictReader loop: malformed rows are skipped, the others append
\* their timestamp to the sequence of their rounded Z
ReadRows(rows, i, acc) ==
    IF i > Len(rows) THEN acc
    ELSE LET row == rows[i] IN
         IF ~row.ok THEN ReadRows(rows, i + 1, acc)
         ELSE LET z == Round3(row.z) IN
              ReadRows(rows, i + 1,
                       IF z \in DOMAIN acc
                       THEN [acc EXCEPT ![z] = Append(@, row.ts)]
                       ELSE acc @@ (z :> <<row.ts>>))

RECURSIVE FirstSeenKeys(_, _, _)
\* the keys of the log in the order of their first row
FirstSeenKeys(rows, i, acc) ==
    IF i > Len(rows) THEN acc
    ELSE IF rows[i].ok /\ \A j \in 1..Len(acc) : acc[j] # Round3(rows[i].z)
         THEN FirstSeenKeys(rows, i + 1, Append(acc, Round3(rows[i].z)))
         ELSE FirstSeenKeys(rows, i + 1, acc)

\* C14 mutant: the filter walks the keys in the order of the log, unsorted
SortedRawKeysMut ==
    IF DOMAIN layer_timestamps_raw = {} THEN <<>> ELSE FirstSeenKeys(log, 1, <<>>)
\* sorted(layer_timestamps_raw.keys())
SortedRawKeys == SortedSeq(DOMAIN layer_timestamps_raw)

\* sorted(stable_layer_timestamps.keys())
SortedStableKeys == SortedSeq(DOMAIN stable_layer_timestamps)

\* is_stable = len(ts_list) >= min_stability
IsStable(ts_list) == Len(ts_list) >= config.MIN_STABILITY_COUNT

\* is_valid_layer_change = min_z_change <= z_change <= max_z_change
IsValidLayerChange(z_change) ==
    /\ config.MIN_Z_CHANGE_MM <= z_change
    /\ z_change <= config.MAX_LAYER_HEIGHT_MM

\* C15 mutant: only negative keys are skipped
SkipKeyMut(z) == z < 0
\* lines 161-162: if z <= 0.0: continue
SkipKey(z) == z <= 0

\* C1 mutant: last_z follows every examined key, accepted or not
NextLastZMut(z, accepted) == z
\* the new last_z of one iteration of the filter loop (line 172)
NextLastZ(z, accepted) == IF accepted THEN z ELSE last_z

-----------------------------------------------------------------------------
(* Configuration, frame files and the extraction service                   *)

\* the defaults of config.get(...): 0.1 mm, 1.0 mm, 3 samples, 0.88, 15, 60
DefaultConfig ==
    [ MIN_Z_CHANGE_MM |-> 100, MAX_LAYER_HEIGHT_MM |-> 1000,
      MIN_STABILITY_COUNT |-> 3, RATIO_PCT |-> 88,
      MIN_FRAMERATE |-> 15, MAX_FRAMERATE |-> 60 ]

PipelineConfigs ==
    { [DefaultConfig EXCEPT !.MIN_STABILITY_COUNT = n] : n \in {1, 2} }

AggConfigs ==
    { [DefaultConfig EXCEPT !.MIN_STABILITY_COUNT = n, !.MIN_Z_CHANGE_MM = c] :
        n \in {1, 2}, c \in {1, 100} }

\* the extractor wrote nothing
NoWrite == -1

EmptyDisk == [k \in {} |-> 0]

\* frame files a previous run may have left in extracted_frames
PreDisks == { EmptyDisk, (1 :> 25), (1 :> 25) @@ (2 :> 0) }

\* what one run of the extraction service does: its exit status and the size
\* of the image it wrote (NoWrite: it left the destination as it was)
Outcomes ==
    { [rc |-> 0, wrote |-> s] : s \in Sizes \cup {NoWrite} }
        \cup { [rc |-> 1, wrote |-> NoWrite] }

\* the frame files after the service ran on output_path = slot (-y overwrites)
DiskAfter(d, slot, o) ==
    IF o.wrote = NoWrite THEN d
    ELSE [x \in DOMAIN d \cup {slot} |-> IF x = slot THEN o.wrote ELSE d[x]]

\* result.returncode == 0 and os.path.exists(output_path)
extract_single_frame(dAfter, slot, o) == o.rc = 0 /\ slot \in DOMAIN dAfter

\* os.path.getsize of a slot, NoWrite when the file is absent
SizeOn(d, slot) == IF slot \in DOMAIN d THEN d[slot] ELSE NoWrite

\* twice statistics.median(sizes)
Median2(sizes) ==
    LET s == SortSeq(sizes, LAMBDA a, b : a < b)
        n == Len(s)
    IN  IF n % 2 = 1 THEN 2 * s[(n + 1) \div 2]
        ELSE s[n \div 2] + s[n \div 2 + 1]

\* C12 mutant: the threshold uses the default ratio, whatever is configured
size_thresholdMut(m2, ratioPct) == m2 * DefaultConfig.RATIO_PCT
\* size_threshold = median_size * threshold_ratio, times 200: the doubled
\* median times the ratio in percent
size_threshold(m2, ratioPct) == m2 * ratioPct

\* C4 mutant: a size equal to the threshold counts as corrupt
FlaggedMut(size) == size * 200 <= median2 * config.RATIO_PCT
\* size < size_threshold
Flagged(size) == size * 200 < size_threshold(median2, config.RATIO_PCT)

\* new_size >= size_threshold
Acceptable(size) == size * 200 >= size_threshold(median2, config.RATIO_PCT)

\* mid_ts = start_ts + (end_ts - start_ts) / 2, doubled
MidTs2(ts_list) ==
    2 * ts_list[1] + (ts_list[Len(ts_list)] - ts_list[1])

\* C5 mutant: the retry loop starts at range(1, ...), skipping the first timestamp
available_tsMut(z_layer_key) == Tail(stable_layer_timestamps[z_layer_key])
\* available_ts = layer_timestamps[z_layer_key]: the retry candidates,
\* walked by range(0, len(available_ts))
available_ts(z_layer_key) == stable_layer_timestamps[z_layer_key]

\* C10 mutant: the detection starts after the first extraction
InitialPassCompleteMut == frame_count >= 1
\* the for loop over sorted_z_layers has run out
InitialPassComplete == frame_count = Len(SortedStableKeys)

\* int(num_frames / target_duration_s), target_duration_s = 10.0
RawFramerate(n) == n \div 10

\* C6 mutant: the lower clamp max(min_fr, ...) is missing
FinalFramerateMut(n, min_fr, max_fr) ==
    IF max_fr < RawFramerate(n) THEN max_fr ELSE RawFramerate(n)
\* max(min_fr, min(max_fr, calculated_framerate))
FinalFramerate(n, min_fr, max_fr) ==
    LET inner == IF max_fr < RawFramerate(n) THEN max_fr ELSE RawFramerate(n)
    IN  IF inner > min_fr THEN inner ELSE min_fr

-----------------------------------------------------------------------------
(* Initial states                                                          *)

\* the state of a run before its first statement, on the given inputs
\* no run of the process has ended yet
NoRun == [ran |-> FALSE, assembly |-> "none", disk |-> EmptyDisk, extracted |-> FALSE]

\* fetch_printer_status returned None (or has not been called)
NoStatus == [ok |-> FALSE]

\* REQUIRED_Z_CAPTURE_POS, REQUIRED_BED_TEMP, REQUIRED_NOZZLE_TEMP: the
\* defaults of config.get(...)
MonitorDefaults ==
    [ REQUIRED_Z_CAPTURE_POS |-> 10, REQUIRED_BED_TEMP |-> 50,
      REQUIRED_NOZZLE_TEMP |-> 220 ]

\* the monitor at position p of its first run, nothing polled, no log file
MonitorAt(p, mc) ==
    /\ mpc = p
    /\ status = NoStatus
    /\ required_bed_temp = mc.REQUIRED_BED_TEMP
    /\ required_nozzle_temp = mc.REQUIRED_NOZZLE_TEMP
    /\ recording = FALSE
    /\ print_log = <<>>
    /\ print_log_exists = FALSE
    /\ log_buffer = <<>>
    /\ elapsed = 0
    /\ started = NoStatus
    /\ runs = 0

\* the state of the post-processor before its first step
GeneratorFresh(l, c, le, ve, lr, fd, d) ==
    /\ pc = "start"
    /\ log = l
    /\ config = c
    /\ logExists = le
    /\ videoExists = ve
    /\ logReadable = lr
    /\ frameDirExists = fd
    /\ disk = d
    /\ disk0 = d
    /\ frames_exist = FALSE
    /\ layer_timestamps_raw = EmptyMap
    /\ stable_layer_timestamps = EmptyMap
    /\ last_z = 0
    /\ zi = 0
    /\ frame_count = 0
    /\ frame_paths = <<>>
    /\ filesizes = <<>>
    /\ median2 = -1
    /\ fi = 0
    /\ attempt_idx = 0
    /\ last_frame = 0
    /\ num_frames = 0
    /\ final_framerate = -1
    /\ assembly = "none"
    /\ signal = "none"
    /\ exitCode = -1
    /\ calls = <<>>
    /\ prevRun = NoRun

\* a run of the post-processor; the monitor is not running
Fresh(l, c, le, ve, lr, fd, d) ==
    /\ GeneratorFresh(l, c, le, ve, lr, fd, d)
    /\ MonitorAt("off", MonitorDefaults)

Init ==
    \E l \in LogsOver(PipelineReadings, MaxLog), c \in PipelineConfigs,
       le \in BOOLEAN, ve \in BOOLEAN, lr \in BOOLEAN, fd \in BOOLEAN,
       d \in PreDisks :
        /\ (~fd => d = EmptyDisk)
        /\ (~le => lr)
        /\ Fresh(l, c, le, ve, lr, fd, d)

-----------------------------------------------------------------------------
(* __main__ up to the extraction                                           *)

\* variables of process_logs_and_extract_frames and of the recovery
extractionVars ==
    << layer_timestamps_raw, stable_layer_timestamps, last_z, zi, frame_count,
       frame_paths, filesizes, median2, fi, attempt_idx, calls >>

\* the inputs of the run, which no step changes
inputVars == << log, logExists, videoExists, logReadable, config, disk0, prevRun,
               monitorVars >>

\* variables of the tail of __main__
tailVars == << num_frames, final_framerate, assembly, signal, exitCode >>

\* C7 mutant: existing frames are never found
check_existing_framesMut == FALSE
\* frames_exist = check_existing_frames(os.getcwd())
check_existing_frames == frameDirExists /\ DOMAIN disk # {}

\* lines 312-319: the resume test of __main__
CheckExistingFrames ==
    /\ pc = "start"
    /\ frames_exist' = check_existing_frames
    /\ pc' = IF check_existing_frames THEN "resume" ELSE "process"
    /\ UNCHANGED << inputVars, extractionVars, tailVars, frameDirExists, disk,
                    last_frame >>

\* last_frame = get_last_frame_path(os.getcwd())
GetLastFramePath ==
    /\ pc = "resume"
    /\ last_frame' = IF frameDirExists /\ DOMAIN disk # {}
                     THEN MaxOf(DOMAIN disk) ELSE 0
    /\ pc' = "main"
    /\ UNCHANGED << inputVars, extractionVars, tailVars, frameDirExists, disk,
                    frames_exist >>

\* C18 mutant: one of the two input files is enough
InputsPresentMut == logExists \/ videoExists
\* lines 121-123: both the log and the video are in the session directory
InputsPresent == logExists /\ videoExists

\* lines 118-129: the input test, then rmtree and makedirs of the frame directory
CheckInputs ==
    /\ pc = "process"
    /\ IF ~InputsPresent
       THEN /\ last_frame' = 0
            /\ pc' = "main"
            /\ UNCHANGED << frameDirExists, disk >>
       ELSE /\ frameDirExists' = TRUE
            /\ disk' = EmptyDisk
            /\ pc' = "read"
            /\ UNCHANGED last_frame
    /\ UNCHANGED << inputVars, extractionVars, tailVars, frames_exist >>

\* C8 mutant: the exception of an unreadable log is not caught
ReadLogMut ==
    /\ pc = "read"
    /\ IF ~logReadable
       THEN /\ pc' = "done"
            /\ exitCode' = 1
            /\ UNCHANGED << layer_timestamps_raw, last_frame >>
       ELSE /\ layer_timestamps_raw' = ReadRows(log, 1, EmptyMap)
            /\ pc' = "filter"
            /\ UNCHANGED << last_frame, exitCode >>
    /\ UNCHANGED << inputVars, stable_layer_timestamps, last_z, zi, frame_count,
                    frame_paths, filesizes, median2, fi, attempt_idx, calls,
                    num_frames, final_framerate, assembly, signal,
                    frameDirExists, disk, frames_exist >>
\* lines 134-149: read the log; any exception returns (None, None)
ReadLog ==
    /\ pc = "read"
    /\ IF ~logReadable
       THEN /\ last_frame' = 0
            /\ pc' = "main"
            /\ UNCHANGED layer_timestamps_raw
       ELSE /\ layer_timestamps_raw' = ReadRows(log, 1, EmptyMap)
            /\ pc' = "filter"
            /\ UNCHANGED last_frame
    /\ UNCHANGED << inputVars, stable_layer_timestamps, last_z, zi, frame_count,
                    frame_paths, filesizes, median2, fi, attempt_idx, calls,
                    tailVars, frameDirExists, disk, frames_exist >>

\* lines 160-174: one iteration of the filter loop over sorted raw keys
FilterStep ==
    /\ pc = "filter"
    /\ zi < Len(SortedRawKeys)
    /\ LET z == SortedRawKeys[zi + 1]
           ts_list == layer_timestamps_raw[z]
           z_change == z - last_z
           accepted == IsStable(ts_list) /\ IsValidLayerChange(z_change)
       IN  IF SkipKey(z)
           THEN UNCHANGED << stable_layer_timestamps, last_z >>
           ELSE /\ stable_layer_timestamps' =
                     IF accepted
                     THEN stable_layer_timestamps @@ (z :> ts_list)
                     ELSE stable_layer_timestamps
                /\ last_z' = NextLastZ(z, accepted)
    /\ zi' = zi + 1
    /\ UNCHANGED << inputVars, layer_timestamps_raw, frame_count, frame_paths,
                    filesizes, median2, fi, attempt_idx, calls, tailVars,
                    frameDirExists, disk, frames_exist, last_frame, pc >>

\* lines 176-186: the end of the filter loop
FilterDone ==
    /\ pc = "filter"
    /\ zi = Len(SortedRawKeys)
    /\ IF DOMAIN stable_layer_timestamps = {}
       THEN /\ last_frame' = 0
            /\ pc' = "main"
       ELSE /\ pc' = "extract"
            /\ UNCHANGED last_frame
    /\ frame_count' = 0
    /\ UNCHANGED << inputVars, layer_timestamps_raw, stable_layer_timestamps,
                    last_z, zi, frame_paths, filesizes, median2, fi,
                    attempt_idx, calls, tailVars, frameDirExists, disk,
                    frames_exist >>

-----------------------------------------------------------------------------
(* Initial extraction pass, corruption detection and recovery              *)

\* the record of one call of extract_single_frame
Call(phase, slot, key, ts2, d, o) ==
    [ phase |-> phase, slot |-> slot, key |-> key, ts2 |-> ts2,
      size |-> SizeOn(d, slot), wrote |-> o.wrote ]

\* lines 188-204: one iteration of the initial extraction loop
ExtractInitial ==
    /\ pc = "extract"
    /\ ~InitialPassComplete
    /\ LET z == SortedStableKeys[frame_count + 1]
           ts_list == stable_layer_timestamps[z]
           slot == frame_count + 1
       IN  \E o \in Outcomes :
             LET d == DiskAfter(disk, slot, o) IN
               /\ disk' = d
               /\ last_frame' = IF extract_single_frame(d, slot, o)
                                THEN slot ELSE last_frame
               /\ calls' = Append(calls, Call("initial", slot, z, MidTs2(ts_list), d, o))
    /\ frame_count' = frame_count + 1
    /\ UNCHANGED << inputVars, layer_timestamps_raw, stable_layer_timestamps,
                    last_z, zi, frame_paths, filesizes, median2, fi,
                    attempt_idx, tailVars, frameDirExists, frames_exist, pc >>

\* lines 206-210 and 57-73: the end of the initial pass and the head of
\* detect_and_replace_corrupt_frames (listing, sizes, median)
DetectStart ==
    /\ pc = "extract"
    /\ InitialPassComplete
    /\ LET paths == SortedSeq(DOMAIN disk)
           sizes == [k \in 1..Len(paths) |-> disk[paths[k]]]
       IN  IF paths = <<>>
           THEN /\ pc' = "final"
                /\ UNCHANGED << frame_paths, filesizes, median2 >>
           ELSE /\ frame_paths' = paths
                /\ filesizes' = sizes
                /\ median2' = Median2(sizes)
                /\ pc' = "recover"
    /\ fi' = 0
    /\ UNCHANGED << inputVars, layer_timestamps_raw, stable_layer_timestamps,
                    last_z, zi, frame_count, attempt_idx, calls, tailVars,
                    frameDirExists, disk, frames_exist, last_frame >>

\* lines 74-91: one iteration of the detection loop, up to the retry loop
CheckFrame ==
    /\ pc = "recover"
    /\ fi < Len(frame_paths)
    /\ LET size == filesizes[fi + 1] IN
         IF fi >= Len(SortedStableKeys)
         THEN /\ fi' = fi + 1
              /\ UNCHANGED << pc, attempt_idx >>
         ELSE IF Flagged(size)
         THEN /\ pc' = "retry"
              /\ attempt_idx' = 0
              /\ UNCHANGED fi
         ELSE /\ fi' = fi + 1
              /\ UNCHANGED << pc, attempt_idx >>
    /\ UNCHANGED << inputVars, layer_timestamps_raw, stable_layer_timestamps,
                    last_z, zi, frame_count, frame_paths, filesizes, median2,
                    calls, tailVars, frameDirExists, disk, frames_exist,
                    last_frame >>

\* C20 mutant: a replacement is written to a new file after the last one
RetryPathMut == MaxOf(DOMAIN disk) + 1
\* lines 74 and 96: the replacement is written to frame_path, the listed file
\* under examination
RetryPath == frame_paths[fi + 1]

\* lines 93-101: one iteration of the retry loop
RetryAttempt ==
    /\ pc = "retry"
    /\ LET z_layer_key == SortedStableKeys[fi + 1]
           candidates == available_ts(z_layer_key)
           slot == RetryPath
       IN  /\ attempt_idx < Len(candidates)
           /\ \E o \in Outcomes :
                LET d == DiskAfter(disk, slot, o)
                    new_ts == candidates[attempt_idx + 1]
                IN  /\ disk' = d
                    /\ calls' = Append(calls, Call("retry", slot, z_layer_key, 2 * new_ts, d, o))
                    /\ IF extract_single_frame(d, slot, o) /\ Acceptable(d[slot])
                       THEN /\ pc' = "recover"
                            /\ fi' = fi + 1
                            /\ UNCHANGED attempt_idx
                       ELSE /\ attempt_idx' = attempt_idx + 1
                            /\ UNCHANGED << pc, fi >>
    /\ UNCHANGED << inputVars, layer_timestamps_raw, stable_layer_timestamps,
                    last_z, zi, frame_count, frame_paths, filesizes, median2,
                    tailVars, frameDirExists, frames_exist, last_frame >>

\* C9 mutant: an exhausted retry loop ends the run
RetryExhaustedMut ==
    /\ pc = "retry"
    /\ attempt_idx >= Len(available_ts(SortedStableKeys[fi + 1]))
    /\ pc' = "done"
    /\ exitCode' = 1
    /\ UNCHANGED << inputVars, extractionVars, num_frames, final_framerate,
                    assembly, signal, frameDirExists, disk, frames_exist,
                    last_frame >>
\* C17 mutant: a frame without a valid replacement is removed
RetryExhaustedRemoving ==
    /\ pc = "retry"
    /\ attempt_idx >= Len(available_ts(SortedStableKeys[fi + 1]))
    /\ signal' = "no_replacement"
    /\ disk' = [x \in DOMAIN disk \ {frame_paths[fi + 1]} |-> disk[x]]
    /\ pc' = "recover"
    /\ fi' = fi + 1
    /\ UNCHANGED << inputVars, layer_timestamps_raw, stable_layer_timestamps,
                    last_z, zi, frame_count, frame_paths, filesizes, median2,
                    attempt_idx, calls, num_frames, final_framerate, assembly,
                    exitCode, frameDirExists, frames_exist, last_frame >>
\* lines 103-104: the retry loop ran out without an acceptable replacement,
\* which is reported ("FAILED to find a valid replacement frame")
RetryExhausted ==
    /\ pc = "retry"
    /\ attempt_idx >= Len(available_ts(SortedStableKeys[fi + 1]))
    /\ signal' = "no_replacement"
    /\ pc' = "recover"
    /\ fi' = fi + 1
    /\ UNCHANGED << inputVars, layer_timestamps_raw, stable_layer_timestamps,
                    last_z, zi, frame_count, frame_paths, filesizes, median2,
                    attempt_idx, calls, num_frames, final_framerate, assembly,
                    exitCode, frameDirExists, disk, frames_exist, last_frame >>

\* lines 106-107: the detection loop ran out
RecoverDone ==
    /\ pc = "recover"
    /\ fi = Len(frame_paths)
    /\ pc' = "final"
    /\ UNCHANGED << inputVars, extractionVars, tailVars, frameDirExists, disk,
                    frames_exist, last_frame >>

\* lines 213-216: the last frame after the replacements
FinishExtraction ==
    /\ pc = "final"
    /\ last_frame' = IF DOMAIN disk = {} THEN 0 ELSE MaxOf(DOMAIN disk)
    /\ pc' = "main"
    /\ UNCHANGED << inputVars, extractionVars, tailVars, frameDirExists, disk,
                    frames_exist >>

-----------------------------------------------------------------------------
(* The tail of __main__: framerate planning and assembly                   *)

\* lines 321-329 and 349-350: count the frames, or skip the assembly
MainAfter ==
    /\ pc = "main"
    /\ IF last_frame # 0
       THEN /\ num_frames' = Cardinality(DOMAIN disk)
            /\ IF Cardinality(DOMAIN disk) = 0
               THEN pc' = "done" /\ exitCode' = 1
               ELSE pc' = "plan" /\ UNCHANGED exitCode
            /\ UNCHANGED signal
       ELSE /\ signal' = "no_data"
            /\ pc' = "done"
            /\ exitCode' = 0
            /\ UNCHANGED num_frames
    /\ UNCHANGED << inputVars, extractionVars, final_framerate, assembly,
                    frameDirExists, disk, frames_exist, last_frame >>

\* lines 331-346: the dynamic framerate
PlanFramerate ==
    /\ pc = "plan"
    /\ final_framerate' =
         FinalFramerate(num_frames, config.MIN_FRAMERATE, config.MAX_FRAMERATE)
    /\ pc' = "assemble"
    /\ UNCHANGED << inputVars, extractionVars, num_frames, assembly, signal,
                    exitCode, frameDirExists, disk, frames_exist, last_frame >>

\* C16 mutant: a failed assembly removes the frame images
AssembleTimelapseMut ==
    /\ pc = "assemble"
    /\ IF ~frameDirExists \/ DOMAIN disk = {}
       THEN UNCHANGED << assembly, disk >>
       ELSE \E rc \in {0, 1} :
              /\ assembly' = IF rc = 0 THEN "ok" ELSE "failed"
              /\ disk' = IF rc = 0 THEN disk ELSE EmptyDisk
    /\ pc' = "done"
    /\ exitCode' = 0
    /\ UNCHANGED << inputVars, extractionVars, num_frames, final_framerate,
                    signal, frameDirExists, frames_exist, last_frame >>

\* lines 250-288: assemble_timelapse; the service is run unless the frame
\* directory is missing or empty, and its exit status decides the outcome
AssembleTimelapse ==
    /\ pc = "assemble"
    /\ IF ~frameDirExists \/ DOMAIN disk = {}
       THEN UNCHANGED assembly
       ELSE \E rc \in {0, 1} : assembly' = IF rc = 0 THEN "ok" ELSE "failed"
    /\ pc' = "done"
    /\ exitCode' = 0
    /\ UNCHANGED << inputVars, extractionVars, num_frames, final_framerate,
                    signal, frameDirExists, disk, frames_exist, last_frame >>

\* the process has ended and is started once more in the same session
\* directory: the files stay, every variable of the process starts afresh
Rerun ==
    /\ pc = "done"
    /\ ~prevRun.ran
    /\ prevRun' = [ran |-> TRUE, assembly |-> assembly, disk |-> disk,
                   extracted |-> calls # <<>>]
    /\ pc' = "start"
    /\ disk0' = disk
    /\ frames_exist' = FALSE
    /\ layer_timestamps_raw' = EmptyMap
    /\ stable_layer_timestamps' = EmptyMap
    /\ last_z' = 0
    /\ zi' = 0
    /\ frame_count' = 0
    /\ frame_paths' = <<>>
    /\ filesizes' = <<>>
    /\ median2' = -1
    /\ fi' = 0
    /\ attempt_idx' = 0
    /\ last_frame' = 0
    /\ num_frames' = 0
    /\ final_framerate' = -1
    /\ assembly' = "none"
    /\ signal' = "none"
    /\ exitCode' = -1
    /\ calls' = <<>>
    /\ UNCHANGED << log, logExists, videoExists, logReadable, config,
                    frameDirExists, disk, monitorVars >>

-----------------------------------------------------------------------------
(* The monitor: run_monitor of timelapse_monitor.py, from the moment a     *)
(* print job has been detected.  Temperatures are degrees C, Z is mm.      *)

\* the tolerance applied to the Z, bed and nozzle checks
START_TOLERANCE == 2
\* least nozzle target at which the print is taken to have started
MIN_PRINT_TEMP_TARGET == 190

\* the answers of the status API: readings just inside and just outside each
\* start condition; a target of 0 stands for 0 or a missing target
Statuses ==
    { [ ok |-> TRUE, state |-> st, axis_z |-> z, temp_bed |-> b, temp_nozzle |-> n,
        target_bed |-> tb, target_nozzle |-> tn ] :
        st \in {"PRINTING", "FINISHED", "ERROR", "CANCELED"}, z \in {7, 8},
        b \in {48, 58}, n \in {178, 218}, tb \in {0, 60}, tn \in {0, 180, 220} }

\* the configurations of the monitor
MonitorConfigs ==
    { [MonitorDefaults EXCEPT !.REQUIRED_NOZZLE_TEMP = n] : n \in {180, 220} }

\* lines 134-138: a target read from the API replaces the one in force when
\* it is present and positive
NewTarget(required, target) == IF target > 0 THEN target ELSE required

\* z_ok = position_z < required_z_limit - START_TOLERANCE
z_ok(st) == st.axis_z < MonitorDefaults.REQUIRED_Z_CAPTURE_POS - START_TOLERANCE
\* bed_ok = bed_temp >= required_bed_temp - START_TOLERANCE
bed_ok(st, bed) == st.temp_bed >= bed - START_TOLERANCE
\* nozzle_actual_ok = nozzle_temp >= required_nozzle_temp - START_TOLERANCE
nozzle_actual_ok(st, nozzle) == st.temp_nozzle >= nozzle - START_TOLERANCE
\* target_temp_ok = required_nozzle_temp >= MIN_PRINT_TEMP_TARGET
target_temp_ok(nozzle) == nozzle >= MIN_PRINT_TEMP_TARGET

\* C22 mutant: only FINISHED ends the wait
PrintEndedMut(st) == st.state = "FINISHED"
\* line 154: the states on which the wait loop leaves the process
PrintEnded(st) == st.state \in {"FINISHED", "ERROR"}
\* line 232: the states on which the logging loop breaks
LoggingEnded(st) == st.state \in {"FINISHED", "ERROR", "CANCELED"}

\* line 118: status = fetch_printer_status() in the wait loop
WaitPoll ==
    /\ mpc = "wait_poll"
    /\ status' \in Statuses \cup {NoStatus}
    /\ mpc' = "wait_check"
    /\ UNCHANGED << generatorVars, required_bed_temp, required_nozzle_temp,
                    recording, print_log, print_log_exists, log_buffer, elapsed,
                    started, runs >>

\* lines 119-171: the rest of one iteration of the wait loop
WaitCheck ==
    /\ mpc = "wait_check"
    /\ IF ~status.ok
       THEN /\ mpc' = "wait_poll"
            /\ UNCHANGED << required_bed_temp, required_nozzle_temp >>
       ELSE LET bed == NewTarget(required_bed_temp, status.target_bed)
                nozzle == NewTarget(required_nozzle_temp, status.target_nozzle)
            IN  /\ required_bed_temp' = bed
                /\ required_nozzle_temp' = nozzle
                /\ mpc' = IF PrintEnded(status) THEN "exited"
                          ELSE IF /\ z_ok(status)
                                  /\ bed_ok(status, bed)
                                  /\ nozzle_actual_ok(status, nozzle)
                                  /\ target_temp_ok(nozzle)
                               THEN "start"
                               ELSE "wait_poll"
    /\ UNCHANGED << generatorVars, status, recording, print_log, print_log_exists,
                    log_buffer, elapsed, started, runs >>

\* a row of print_log.csv: the header, or the record of one poll
HeaderRow == [kind |-> "header"]
DataRow(ts, st) == [kind |-> "data", ts |-> ts, state |-> st.state]

\* C23 mutant: the header is written whenever the log did not exist
NeedsHeaderMut == ~print_log_exists
\* lines 199-202: not log_file_exists or os.path.getsize(LOG_FILE_PATH) == 0
NeedsHeader == ~print_log_exists \/ print_log = <<>>

\* lines 173-205: the video process is started, the log is opened in append
\* mode and the header is written to it when the log is new or empty
StartRecording ==
    /\ mpc = "start"
    /\ recording' = TRUE
    /\ started' = [ ok |-> TRUE, poll |-> status, bed |-> required_bed_temp,
                    nozzle |-> required_nozzle_temp ]
    /\ print_log_exists' = TRUE
    /\ log_buffer' = IF NeedsHeader THEN << HeaderRow >> ELSE <<>>
    /\ elapsed' = 0
    /\ mpc' = "log_poll"
    /\ UNCHANGED << generatorVars, status, required_bed_temp, required_nozzle_temp,
                    print_log, runs >>

\* the answers a poll of the logging loop can get: the loop only copies the
\* readings into its row, so they are fixed here; after MaxPolls rows the
\* print is over
LoggingStatuses ==
    { st \in Statuses :
        /\ st.axis_z = 7 /\ st.temp_bed = 58 /\ st.temp_nozzle = 218
        /\ st.target_bed = 60 /\ st.target_nozzle = 220
        /\ elapsed >= MaxPolls => LoggingEnded(st) }

\* line 208: status = fetch_printer_status() in the logging loop
LogPoll ==
    /\ mpc = "log_poll"
    /\ status' \in LoggingStatuses \cup {NoStatus}
    /\ mpc' = "log_check"
    /\ UNCHANGED << generatorVars, required_bed_temp, required_nozzle_temp,
                    recording, print_log, print_log_exists, log_buffer, elapsed,
                    started, runs >>

\* lines 209-235: the rest of one iteration of the logging loop; the row is
\* flushed to the file together with whatever was written before it
LogCheck ==
    /\ mpc = "log_check"
    /\ IF status.ok
       THEN /\ print_log' = print_log \o log_buffer \o << DataRow(elapsed + 1, status) >>
            /\ log_buffer' = <<>>
            /\ elapsed' = elapsed + 1
            /\ mpc' = IF LoggingEnded(status) THEN "stop" ELSE "log_poll"
       ELSE /\ mpc' = "log_poll"
            /\ UNCHANGED << print_log, log_buffer, elapsed >>
    /\ UNCHANGED << generatorVars, status, required_bed_temp, required_nozzle_temp,
                    recording, print_log_exists, started, runs >>

\* lines 200 and 237-247: the log is closed and the video process stopped
StopRecording ==
    /\ mpc = "stop"
    /\ print_log' = print_log \o log_buffer
    /\ log_buffer' = <<>>
    /\ recording' = FALSE
    /\ mpc' = "finished"
    /\ UNCHANGED << generatorVars, status, required_bed_temp, required_nozzle_temp,
                    print_log_exists, elapsed, started, runs >>

\* the monitor is stopped from outside while it runs: an exception inside the
\* with block closes the log and so flushes it, a kill loses what was not
\* flushed
Abort ==
    /\ mpc \in {"wait_poll", "wait_check", "start", "log_poll", "log_check", "stop"}
    /\ \E flushed \in BOOLEAN :
          print_log' = IF flushed THEN print_log \o log_buffer ELSE print_log
    /\ log_buffer' = <<>>
    /\ mpc' = "killed"
    /\ UNCHANGED << generatorVars, status, required_bed_temp, required_nozzle_temp,
                    recording, print_log_exists, elapsed, started, runs >>

\* the monitor is run again for a print of the same file: same session
\* directory (lines 88-100), so the same print_log.csv
MonitorRerun ==
    /\ mpc \in {"exited", "finished", "killed"}
    /\ runs + 1 < MaxMonitorRuns
    /\ runs' = runs + 1
    /\ \E mc \in MonitorConfigs :
          /\ required_bed_temp' = mc.REQUIRED_BED_TEMP
          /\ required_nozzle_temp' = mc.REQUIRED_NOZZLE_TEMP
    /\ mpc' = "wait_poll"
    /\ status' = NoStatus
    /\ recording' = FALSE
    /\ log_buffer' = <<>>
    /\ elapsed' = 0
    /\ started' = NoStatus
    /\ UNCHANGED << generatorVars, print_log, print_log_exists >>

-----------------------------------------------------------------------------
(* Specifications                                                          *)

Next ==
    \/ CheckExistingFrames
    \/ GetLastFramePath
    \/ CheckInputs
    \/ ReadLog
    \/ FilterStep
    \/ FilterDone
    \/ ExtractInitial
    \/ DetectStart
    \/ CheckFrame
    \/ RetryAttempt
    \/ RetryExhausted
    \/ RecoverDone
    \/ FinishExtraction
    \/ MainAfter
    \/ PlanFramerate
    \/ AssembleTimelapse

\* the whole post-processor on small logs
Spec == Init /\ [][Next]_vars

\* every statement and every call of an external tool returns
LiveSpec == Init /\ [][Next]_vars /\ WF_vars(Next)

InitAgg ==
    \E l \in LogsOver(AggReadings, MaxAggLog), c \in AggConfigs :
        Fresh(l, c, TRUE, TRUE, TRUE, FALSE, EmptyDisk)

NextAgg ==
    \/ CheckExistingFrames
    \/ CheckInputs
    \/ ReadLog
    \/ FilterStep
    \/ FilterDone

\* the pipeline run once, then once more on the files the first run left
SpecRerun == Init /\ [][Next \/ Rerun]_vars

InitMonitor ==
    /\ GeneratorFresh(<<>>, DefaultConfig, FALSE, FALSE, TRUE, FALSE, EmptyDisk)
    /\ \E mc \in MonitorConfigs : MonitorAt("wait_poll", mc)

NextMonitor ==
    \/ WaitPoll
    \/ WaitCheck
    \/ StartRecording
    \/ LogPoll
    \/ LogCheck
    \/ StopRecording

\* one run of the monitor, from the detection of the print job
SpecMonitor == InitMonitor /\ [][NextMonitor]_vars

\* the monitor keeps running: it is never suspended for ever
LiveSpecMonitor == SpecMonitor /\ WF_vars(NextMonitor)

\* monitor runs on one session directory, each of which may be stopped from outside
SpecMonitorRuns == InitMonitor /\ [][NextMonitor \/ Abort \/ MonitorRerun]_vars

\* the layer aggregator alone, on richer logs and configurations
SpecAgg == InitAgg /\ [][NextAgg]_vars

\* the layers of the end-to-end scenario, in the order of its log: reading
\* (1e-4 mm) and number of samples beyond the common count
ScenarioLayers ==
    << [z |-> 0, extra |-> 0], [z |-> 2000, extra |-> 2], [z |-> 2050, extra |-> 0],
       [z |-> 15000, extra |-> 0], [z |-> 8000, extra |-> 0] >>

\* orders in which the log may list the layers
LayerOrders ==
    { p \in [1..Len(ScenarioLayers) -> 1..Len(ScenarioLayers)] :
        \A a \in DOMAIN p, b \in DOMAIN p : a # b => p[a] # p[b] }

RECURSIVE ScenarioReadings(_, _, _)
\* the readings of a log that lists the layers in order p from position i on,
\* each layer with count samples and its extra ones
ScenarioReadings(p, i, count) ==
    IF i > Len(p) THEN <<>>
    ELSE LET layer == ScenarioLayers[p[i]] IN
         [k \in 1..(count + layer.extra) |-> layer.z] \o ScenarioReadings(p, i + 1, count)

\* the order 0.000, 0.200, 0.205, 1.500, 0.800
ScenarioOrder == [k \in 1..Len(ScenarioLayers) |-> k]

InitScenario ==
    \E p \in LayerOrders, count \in {3, 4} :
        Fresh(LogOf(ScenarioReadings(p, 1, count)), DefaultConfig,
              TRUE, TRUE, TRUE, FALSE, EmptyDisk)

\* the layer aggregator on the logs of the end-to-end scenario, default configuration
SpecScenario == InitScenario /\ [][NextAgg]_vars

\* readings at, below and above the bed, and thresholds at and below zero
BedReadings == {-1000, 0, 1000, 2000}
BedConfigs ==
    { [DefaultConfig EXCEPT !.MIN_STABILITY_COUNT = n, !.MIN_Z_CHANGE_MM = c] :
        n \in {1, 2}, c \in {-2000, 0, 100} }

InitBed ==
    \E l \in LogsOver(BedReadings, MaxAggLog), c \in BedConfigs :
        Fresh(l, c, TRUE, TRUE, TRUE, FALSE, EmptyDisk)

\* the layer aggregator on logs with readings at or below 0.0
SpecBed == InitBed /\ [][NextAgg]_vars

InitLog ==
    \E n \in 0..MaxAggLog :
      \E zs \in [1..n -> AggReadings \cup {NonNumeric}], b \in 0..n :
        /\ (b = 0 \/ b < n)
        /\ Fresh(SessionLog(zs, b), DefaultConfig, TRUE, TRUE, TRUE, FALSE, EmptyDisk)

NextLog ==
    \/ CheckExistingFrames
    \/ CheckInputs
    \/ ReadLog

\* the log read alone, on logs of one or two monitor sessions
SpecLog == InitLog /\ [][NextLog]_vars

\* frame counts and framerate bounds of the planner's runs
PlanFrameCounts == {1, 9, 10, 47, 149, 150, 151, 300, 599, 600, 609, 1000}
PlanMinFramerates == {0, 1, 15, 30, 60}
PlanMaxFramerates == {1, 15, 30, 60}

InitPlan ==
    \E n \in PlanFrameCounts, lo \in PlanMinFramerates, hi \in PlanMaxFramerates :
        Fresh(<<>>, [DefaultConfig EXCEPT !.MIN_FRAMERATE = lo, !.MAX_FRAMERATE = hi],
              TRUE, TRUE, TRUE, TRUE, [k \in 1..n |-> 25])

NextPlan ==
    \/ CheckExistingFrames
    \/ GetLastFramePath
    \/ MainAfter
    \/ PlanFramerate
    \/ AssembleTimelapse

\* resumed runs over many frames: the framerate planner
SpecPlan == InitPlan /\ [][NextPlan]_vars

-----------------------------------------------------------------------------
(* Properties                                                              *)

\* the retry calls made on one frame file, in the order they were made
RetryCallsOn(slot) ==
    SelectSeq(calls, LAMBDA c : c.phase = "retry" /\ c.slot = slot)

\* the keys the filter walk has examined so far
Examined == { SortedRawKeys[j] : j \in 1..zi }

\* the greatest accepted key below k, 0.0 when there is none
PreviousAcceptedKey(k) ==
    MaxOf({0} \cup { j \in DOMAIN stable_layer_timestamps : j < k })

\* both tests of the stability filter, for key k against the key accepted before it
PassesFilter(k) ==
    /\ Len(layer_timestamps_raw[k]) >= config.MIN_STABILITY_COUNT
    /\ config.MIN_Z_CHANGE_MM <= k - PreviousAcceptedKey(k)
    /\ k - PreviousAcceptedKey(k) <= config.MAX_LAYER_HEIGHT_MM

\* the size passes the corruption threshold median * ratio of the run
AtOrAboveThreshold(size) == size * 200 >= median2 * config.RATIO_PCT

\* C1: walking the keys in ascending order from 0.0, every key of the
\* StableLayerSet has at least minStabilityCount samples and lies between
\* minZChange and maxLayerHeight above the previously accepted key; an
\* examined key that fails either test is absent, and lastAcceptedZ is always
\* the greatest accepted key, so a rejected key leaves it unchanged.
C1_StableLayerFilter ==
    /\ DOMAIN stable_layer_timestamps \subseteq Examined
    /\ \A k \in DOMAIN stable_layer_timestamps :
          /\ stable_layer_timestamps[k] = layer_timestamps_raw[k]
          /\ PassesFilter(k)
    /\ \A k \in Examined \ DOMAIN stable_layer_timestamps :
          k > 0 => ~PassesFilter(k)
    /\ last_z = MaxOf({0} \cup DOMAIN stable_layer_timestamps)

\* C1 witness: the walk is over, a positive key was rejected and a greater key
\* was accepted after it
C1_Witness ==
    /\ pc = "extract"
    /\ zi = Len(SortedRawKeys)
    /\ \E r \in Examined \ DOMAIN stable_layer_timestamps :
          \E a \in DOMAIN stable_layer_timestamps : 0 < r /\ r < a

\* C2: every retry of the recovery uses the layer key its slot was bound to in
\* the initial pass: slot k uses the k-th smallest StableLayerSet key.
C2_SlotKeyAlignment ==
    \A j \in 1..Len(calls) :
        calls[j].phase = "retry" => calls[j].key = SortedStableKeys[calls[j].slot]

\* C3: the retries on a slot walk the timestamps of the layer bound to the slot
\* in log order, and none follows a retry that left a size >= threshold.
C3_RetriesFollowBoundLayer ==
    \A slot \in 1..Len(SortedStableKeys) :
        LET r == RetryCallsOn(slot)
            bound == stable_layer_timestamps[SortedStableKeys[slot]]
        IN  /\ Len(r) <= Len(bound)
            /\ \A j \in 1..Len(r) :
                  /\ j <= Len(bound) => r[j].ts2 = 2 * bound[j]
                  /\ j < Len(r) => ~AtOrAboveThreshold(r[j].size)

\* C4: a frame whose size after the initial pass is >= median * ratio, the
\* threshold itself included, is never handed to the extractor by the recovery
\* and keeps its image.
C4_AcceptableSlotsUntouched ==
    median2 # -1 =>
        \A k \in 1..Len(frame_paths) :
            AtOrAboveThreshold(filesizes[k]) =>
                /\ RetryCallsOn(frame_paths[k]) = <<>>
                /\ frame_paths[k] \in DOMAIN disk
                /\ disk[frame_paths[k]] = filesizes[k]

\* C4 witness: the recovery is over and a frame sat exactly on a positive threshold
C4_Witness ==
    /\ pc = "done"
    /\ median2 > 0
    /\ \E k \in 1..Len(frame_paths) :
          filesizes[k] * 200 = median2 * config.RATIO_PCT

\* C5 as claimed: no retry on a slot uses the timestamp the initial pass used
\* for that slot.
C5_NoRetryAtInitialTimestamp ==
    \A i \in 1..Len(calls), j \in 1..Len(calls) :
        ( /\ calls[i].phase = "initial"
          /\ calls[j].phase = "retry"
          /\ calls[i].slot = calls[j].slot )
        => calls[i].ts2 # calls[j].ts2

\* C5 amended: the retries on a flagged frame walk every timestamp of the
\* layer the recovery maps the frame to (the key at the frame's position in
\* the sorted listing), in log order from the layer's first timestamp; the
\* timestamp of the initial pass is not excluded, and a flagged frame whose
\* turn has passed was retried at least once.
C5_RetriesWalkAllCandidates ==
    \A k \in 1..Len(frame_paths) :
        k <= Len(SortedStableKeys) =>
            LET r == RetryCallsOn(frame_paths[k])
                all == stable_layer_timestamps[SortedStableKeys[k]]
            IN  /\ Len(r) <= Len(all)
                /\ \A j \in 1..Len(r) : j <= Len(all) => r[j].ts2 = 2 * all[j]
                /\ (fi >= k /\ ~AtOrAboveThreshold(filesizes[k])) => Len(r) >= 1

\* C5 witness: a retry ran at the very timestamp of the slot's initial extraction
C5_Witness ==
    \E i \in 1..Len(calls), j \in 1..Len(calls) :
        /\ calls[i].phase = "initial"
        /\ calls[j].phase = "retry"
        /\ calls[i].slot = calls[j].slot
        /\ calls[i].ts2 = calls[j].ts2

\* clamp(raw, lo, hi)
Clamp(raw, lo, hi) == IF raw < lo THEN lo ELSE IF raw > hi THEN hi ELSE raw

\* the planner's result is the clamped floor(n / 10), within the bounds, positive
PlannedWithinBounds ==
    /\ final_framerate =
         Clamp(num_frames \div 10, config.MIN_FRAMERATE, config.MAX_FRAMERATE)
    /\ config.MIN_FRAMERATE <= final_framerate
    /\ final_framerate <= config.MAX_FRAMERATE
    /\ final_framerate >= 1

\* C6 as claimed: for every frame count and every configured pair of bounds
\* the final framerate is clamp(floor(n / 10), min, max), within the bounds
\* and positive.
C6_FramerateForEveryConfig ==
    final_framerate # -1 => PlannedWithinBounds

\* C6 amended: the same for every configuration with
\* 1 <= minFramerate <= maxFramerate; with 15/60, 47 frames give 15, 1000 give
\* 60 and 300 give 30.
C6_FramerateClamped ==
    final_framerate # -1 =>
        /\ (1 <= config.MIN_FRAMERATE /\ config.MIN_FRAMERATE <= config.MAX_FRAMERATE)
              => PlannedWithinBounds
        /\ (config.MIN_FRAMERATE = 15 /\ config.MAX_FRAMERATE = 60) =>
              /\ num_frames = 47 => final_framerate = 15
              /\ num_frames = 1000 => final_framerate = 60
              /\ num_frames = 300 => final_framerate = 30

\* C6 witness: fewer than ten frames, floor(n / 10) = 0, planned at the minimum
C6_Witness ==
    /\ pc = "assemble"
    /\ num_frames = 9
    /\ config.MIN_FRAMERATE = 15
    /\ config.MAX_FRAMERATE = 60
    /\ final_framerate = 15

\* C7: when frame images exist at the start of the run, the run makes no
\* extraction call, leaves every frame image as it was, goes from the resume
\* test straight to the framerate planning with the count of the existing
\* images, and ends with the assembly service invoked.
C7_ResumeFastPath ==
    DOMAIN disk0 # {} =>
        /\ calls = <<>>
        /\ disk = disk0
        /\ pc \in {"start", "resume", "main", "plan", "assemble", "done"}
        /\ pc \in {"plan", "assemble", "done"} =>
              num_frames = Cardinality(DOMAIN disk0)
        /\ pc = "done" =>
              /\ assembly # "none"
              /\ final_framerate # -1

\* C7 witness: a resumed run has ended
C7_Witness ==
    /\ pc = "done"
    /\ DOMAIN disk0 # {}
    /\ assembly # "none"
    /\ calls = <<>>

\* the run got to read the log, and the log was unreadable or the filter left no key
AggregationFailed ==
    /\ pc \notin {"start", "resume", "process", "read", "filter"}
    /\ DOMAIN disk0 = {}
    /\ logExists /\ videoExists
    /\ ~logReadable \/ DOMAIN stable_layer_timestamps = {}

\* C8 as claimed: whenever the log is unreadable the run makes no extraction
\* call, reports no data and never invokes the assembly service.
C8_UnreadableLogAborts ==
    (pc = "done" /\ logExists /\ videoExists /\ ~logReadable) =>
        /\ calls = <<>>
        /\ assembly = "none"
        /\ signal = "no_data"
        /\ exitCode = 0

\* C8 amended: in a run that finds no frame image at its start and both input
\* files, when the log is unreadable or no key survives the filter, the run
\* makes no extraction call, never invokes the assembly service, reports no
\* data and ends with exit status 0.
C8_NoDataAborts ==
    AggregationFailed =>
        /\ calls = <<>>
        /\ assembly = "none"
        /\ pc \in {"main", "done"}
        /\ pc = "done" => (signal = "no_data" /\ exitCode = 0)

\* C8 witness: a run ended after the filter rejected every key of a readable log
C8_Witness ==
    /\ pc = "done"
    /\ AggregationFailed
    /\ logReadable
    /\ DOMAIN layer_timestamps_raw # {}

\* an initial extraction left an image file
SomeInitialImage ==
    \E j \in 1..Len(calls) : calls[j].phase = "initial" /\ calls[j].size # NoWrite

\* C9: once an initial extraction has produced an image file the run goes on
\* to invoke the assembly service, whatever fails for the other frames; a run
\* ends without invoking it only with no stable layer or no frame image.
C9_FrameFailuresNeverAbort ==
    /\ [](SomeInitialImage => <>(assembly # "none"))
    /\ []((pc = "done" /\ assembly = "none") =>
            (DOMAIN stable_layer_timestamps = {} \/ DOMAIN disk = {}))

\* C9 witness: the assembly was invoked although an initial extraction left no
\* file and a retried frame is still below the threshold
C9_Witness ==
    /\ pc = "done"
    /\ assembly # "none"
    /\ \E j \in 1..Len(calls) : calls[j].phase = "initial" /\ calls[j].size = NoWrite
    /\ \E j \in 1..Len(calls) :
          /\ calls[j].phase = "retry"
          /\ ~AtOrAboveThreshold(disk[calls[j].slot])

\* C10: the initial extractions run in slot order 1, 2, ..., each retry comes
\* after the initial extraction of every StableLayerSet key, and the median is
\* computed only once the whole initial pass is over.
C10_ExtractionOrderTotal ==
    /\ \A j \in 1..Len(calls) :
          /\ calls[j].phase = "initial" => calls[j].slot = j
          /\ calls[j].phase = "retry" =>
                (j > Len(SortedStableKeys) /\ median2 # -1)
    /\ median2 # -1 =>
          /\ Len(calls) >= Len(SortedStableKeys)
          /\ \A j \in 1..Len(SortedStableKeys) : calls[j].phase = "initial"

\* C10 witness: a retry was made in a run with at least two stable layers
C10_Witness ==
    /\ Len(SortedStableKeys) >= 2
    /\ \E j \in 1..Len(calls) : calls[j].phase = "retry"

\* the detection loop of the run is over
RecoveryOver == pc \in {"final", "main", "plan", "assemble", "done"} /\ median2 # -1

\* C11: a frame that is zero bytes after the initial pass (the extractor exited
\* with status 0 and left an empty file) is flagged and retried by the
\* recovery, whatever the sizes of the other frames.
C11_ZeroByteFrameRetried ==
    RecoveryOver =>
        \A k \in 1..Len(frame_paths) :
            filesizes[k] = 0 => RetryCallsOn(frame_paths[k]) # <<>>

\* the sizes of the frame images the initial pass left on disk
InitialCohort ==
    LET made == SelectSeq(calls, LAMBDA c : c.phase = "initial" /\ c.size # NoWrite)
    IN  [k \in 1..Len(made) |-> made[k].size]

\* twice the median of a non-empty sequence: the lower median plus the upper median
DoubledMedian(sizes) ==
    LET n == Len(sizes)
        vals == { sizes[k] : k \in 1..n }
        atMost(x) == Cardinality({ k \in 1..n : sizes[k] <= x })
        atLeast(x) == Cardinality({ k \in 1..n : sizes[k] >= x })
    IN  MinOf({ x \in vals : 2 * atMost(x) >= n })
          + MaxOf({ x \in vals : 2 * atLeast(x) >= n })

\* corruption ratios (percent) a configuration may set
Ratios == {50, 88, 100}

\* the threshold of the run is the median of the initial cohort times the ratio
ThresholdIsMedianTimesRatio ==
    /\ median2 = DoubledMedian(InitialCohort)
    /\ \A r \in Ratios \cup {config.RATIO_PCT} :
          size_threshold(median2, r) = DoubledMedian(InitialCohort) * r

\* C12 as claimed: the threshold is median(sizes after the initial pass) *
\* ratio, and for every cohort a strictly larger ratio gives a strictly larger
\* threshold.
C12_ThresholdStrictlyMonotone ==
    median2 # -1 =>
        /\ ThresholdIsMedianTimesRatio
        /\ \A r1 \in Ratios, r2 \in Ratios :
              r1 < r2 => size_threshold(median2, r1) < size_threshold(median2, r2)

\* C12 amended: the threshold is median(sizes after the initial pass) * ratio;
\* a strictly larger ratio gives a strictly larger threshold for every cohort
\* whose median is positive, and the same threshold 0 when the median is 0.
C12_ThresholdMonotone ==
    median2 # -1 =>
        /\ ThresholdIsMedianTimesRatio
        /\ \A r1 \in Ratios, r2 \in Ratios :
              r1 < r2 =>
                /\ median2 > 0 =>
                      size_threshold(median2, r1) < size_threshold(median2, r2)
                /\ median2 = 0 =>
                      ( /\ size_threshold(median2, r1) = 0
                        /\ size_threshold(median2, r2) = 0 )

\* C12 witness: a cohort of three frames of different sizes whose median is positive
C12_Witness ==
    /\ median2 > 0
    /\ Len(filesizes) = 3
    /\ filesizes[1] # filesizes[2]
    /\ filesizes[2] # filesizes[3]
    /\ filesizes[1] # filesizes[3]

\* the 3-decimal key nearest to a reading
NearestKey(z) == (z + 5) \div 10

\* the positions of the well-formed rows of the log
WellFormed == { i \in 1..Len(log) : log[i].ok }

\* the timestamps of the well-formed rows whose reading is nearest to key k,
\* in the order of the log
ExpectedSamples(k) ==
    LET rows == SelectSeq(log, LAMBDA row : row.ok /\ NearestKey(row.z) = k)
    IN  [j \in 1..Len(rows) |-> rows[j].ts]

\* key k holds the timestamp of row i somewhere before the timestamp of row j
HoldsInOrder(k, i, j) ==
    \E p \in 1..Len(layer_timestamps_raw[k]), q \in 1..Len(layer_timestamps_raw[k]) :
        /\ p < q
        /\ layer_timestamps_raw[k][p] = log[i].ts
        /\ layer_timestamps_raw[k][q] = log[j].ts

\* key k holds the timestamp of row i, and is within half a step of its reading
HoldsNear(k, i) ==
    /\ \E p \in 1..Len(layer_timestamps_raw[k]) : layer_timestamps_raw[k][p] = log[i].ts
    /\ 10 * k - 5 <= log[i].z
    /\ log[i].z <= 10 * k + 5

\* the readings of rows i and j differ by less than 0.001 mm
CloseReadings(i, j) ==
    /\ log[i].z - log[j].z < 10
    /\ log[j].z - log[i].z < 10

\* C13 as claimed: two readings that differ by less than 0.001 are under one
\* key, whose sequence holds both timestamps in log order.
C13_CloseReadingsMerge ==
    pc = "filter" =>
        \A i \in WellFormed, j \in WellFormed :
            (i < j /\ CloseReadings(i, j)) =>
                \E k \in DOMAIN layer_timestamps_raw : HoldsInOrder(k, i, j)

\* C13 amended: two readings are under one key, with both timestamps in log
\* order, when they round to the same 3-decimal value; two readings that
\* differ by less than 0.001 are each under the key nearest to them, and these
\* keys are the same or 0.001 apart.
C13_SameRoundingMerges ==
    pc = "filter" =>
        \A i \in WellFormed, j \in WellFormed :
            i < j =>
              /\ NearestKey(log[i].z) = NearestKey(log[j].z) =>
                    \E k \in DOMAIN layer_timestamps_raw : HoldsInOrder(k, i, j)
              /\ CloseReadings(i, j) =>
                    \E ki \in DOMAIN layer_timestamps_raw, kj \in DOMAIN layer_timestamps_raw :
                        /\ HoldsNear(ki, i)
                        /\ HoldsNear(kj, j)
                        /\ ki - kj <= 1
                        /\ kj - ki <= 1

\* C13 witness: two readings less than 0.001 apart were put under different keys
C13_Witness ==
    /\ pc = "filter"
    /\ \E i \in WellFormed, j \in WellFormed :
          /\ i < j
          /\ CloseReadings(i, j)
          /\ \E ki \in DOMAIN layer_timestamps_raw, kj \in DOMAIN layer_timestamps_raw :
                ki # kj /\ HoldsNear(ki, i) /\ HoldsNear(kj, j)

\* the run has filtered the scenario's log in the order the scenario gives it
ScenarioFiltered ==
    /\ pc = "extract"
    /\ \E count \in {3, 4} : log = LogOf(ScenarioReadings(ScenarioOrder, 1, count))

\* C14 as claimed: on the log 0.000, 0.200 (5 samples), 0.205, 1.500, 0.800
\* with the default configuration the StableLayerSet holds 0.200 and 0.800
\* and neither 0.000 nor 1.500.
C14_ScenarioRejectsHighLayer ==
    ScenarioFiltered =>
        /\ 200 \in DOMAIN stable_layer_timestamps
        /\ 800 \in DOMAIN stable_layer_timestamps
        /\ 0 \notin DOMAIN stable_layer_timestamps
        /\ 1500 \notin DOMAIN stable_layer_timestamps

\* C14 amended: whatever the order of the layers in the log, the keys are
\* walked in ascending order and the StableLayerSet is 0.200, 0.800 and 1.500
\* (0.7 above the accepted 0.800); 0.000 and 0.205 are rejected.
C14_ScenarioAscendingWalk ==
    pc = "extract" =>
        /\ DOMAIN stable_layer_timestamps = {200, 800, 1500}
        /\ last_z = 1500
        /\ Len(stable_layer_timestamps[200]) >= 5

\* C14 witness: the scenario's own log is filtered and 1.500 is accepted
C14_Witness ==
    /\ ScenarioFiltered
    /\ 1500 \in DOMAIN stable_layer_timestamps

\* C15: for every log and every configuration, minZChange <= 0 included, no
\* key equal to 0.0 and no negative key is in the StableLayerSet, whatever its
\* sample count, and such a key never changes lastAcceptedZ: while only keys
\* <= 0 have been examined lastAcceptedZ is still 0.0.
C15_NoKeyAtOrBelowZero ==
    /\ \A k \in DOMAIN stable_layer_timestamps : k > 0
    /\ (\A k \in Examined : k <= 0) => last_z = 0
    /\ last_z = MaxOf({0} \cup DOMAIN stable_layer_timestamps)

\* C15 witness: the walk is over under a minZChange <= 0, the key 0.0 and a
\* negative key both had enough samples, and a positive key was accepted
C15_Witness ==
    /\ pc = "extract"
    /\ config.MIN_Z_CHANGE_MM <= 0
    /\ 0 \in DOMAIN layer_timestamps_raw /\ IsStable(layer_timestamps_raw[0])
    /\ \E k \in DOMAIN layer_timestamps_raw : k < 0 /\ IsStable(layer_timestamps_raw[k])
    /\ \E k \in DOMAIN stable_layer_timestamps : k > 0

\* a second run follows a run whose assembly failed
AfterFailedAssembly == prevRun.ran /\ prevRun.assembly = "failed"

\* C16: a failing assembly leaves every frame image on disk and unchanged, so
\* the next run finds the same images, takes the resume fast path and makes
\* no extraction call.
C16_FailedAssemblyKeepsFrames ==
    /\ [][pc = "assemble" => disk' = disk /\ frameDirExists' = frameDirExists]_vars
    /\ [](AfterFailedAssembly =>
            /\ disk = prevRun.disk
            /\ DOMAIN disk # {}
            /\ calls = <<>>
            /\ pc \in {"start", "resume", "main", "plan", "assemble", "done"}
            /\ pc # "start" => frames_exist)

\* C16 witness: a run extracted its frames, its assembly failed, and the next
\* run has ended on the fast path
C16_Witness ==
    /\ AfterFailedAssembly
    /\ prevRun.extracted
    /\ pc = "done"
    /\ frames_exist
    /\ calls = <<>>
    /\ disk = prevRun.disk

\* every retry candidate of the k-th listed frame has been attempted and none
\* left a size >= threshold
Exhausted(k) ==
    /\ k <= Len(frame_paths)
    /\ k <= Len(SortedStableKeys)
    /\ LET r == RetryCallsOn(frame_paths[k])
           all == stable_layer_timestamps[SortedStableKeys[k]]
       IN  /\ Len(r) = Len(all)
           /\ Len(r) >= 1
           /\ ~AtOrAboveThreshold(r[Len(r)].size)

RECURSIVE LastWritten(_, _, _)
\* the size written by the last of the first n calls of r that wrote a file,
\* and initial when none of them wrote
LastWritten(r, n, initial) ==
    IF n = 0 THEN initial
    ELSE IF r[n].wrote # NoWrite THEN r[n].wrote
    ELSE LastWritten(r, n - 1, initial)

\* the exhaustion of slot k is reported once the retry loop is left, and the
\* run still ends normally with the assembly service invoked
ExhaustionNotFatal(k) ==
    /\ (fi >= k \/ pc \notin {"recover", "retry"}) => signal = "no_replacement"
    /\ pc = "done" => (exitCode = 0 /\ assembly # "none")

\* C17 as claimed: when every retry candidate of a flagged slot has been
\* attempted without reaching the threshold, the slot's image is the result
\* of the last attempted candidate, the slot is not deleted, and the
\* exhaustion is reported without aborting the run.
C17_ExhaustedKeepsLastAttempt ==
    \A k \in 1..Len(frame_paths) :
        Exhausted(k) =>
            LET r == RetryCallsOn(frame_paths[k]) IN
              /\ frame_paths[k] \in DOMAIN disk
              /\ disk[frame_paths[k]] = r[Len(r)].wrote
              /\ ExhaustionNotFatal(k)

\* C17 amended: the slot then holds the image of the last attempt that wrote
\* a file, or its initial image when no attempt wrote one; the slot is not
\* deleted, and the exhaustion is reported without aborting the run.
C17_ExhaustedKeepsLastWritten ==
    \A k \in 1..Len(frame_paths) :
        Exhausted(k) =>
            LET r == RetryCallsOn(frame_paths[k]) IN
              /\ frame_paths[k] \in DOMAIN disk
              /\ disk[frame_paths[k]] = LastWritten(r, Len(r), filesizes[k])
              /\ ExhaustionNotFatal(k)

\* C17 witness: the run is over, a slot with two candidates was exhausted, its
\* first retry wrote an image and its last retry wrote none
C17_Witness ==
    /\ pc = "done"
    /\ \E k \in 1..Len(frame_paths) :
          /\ Exhausted(k)
          /\ LET r == RetryCallsOn(frame_paths[k]) IN
               /\ Len(r) >= 2
               /\ r[1].wrote # NoWrite
               /\ r[1].wrote # filesizes[k]
               /\ r[Len(r)].wrote = NoWrite

\* the log or the video is absent from the session directory
InputMissing == ~(logExists /\ videoExists)

\* C18 as claimed: in every run where the log or the video is absent no
\* extraction call is made and the assembly service is never invoked.
C18_InputMissingNeverAssembles ==
    InputMissing => (calls = <<>> /\ assembly = "none")

\* C18 amended: in every run that finds no frame image at its start and where
\* the log or the video is absent, no extraction call is made, the frame
\* directory is left as it was, the assembly service is never invoked, and
\* the run reports no data and ends with exit status 0.
C18_InputMissingAborts ==
    (InputMissing /\ DOMAIN disk0 = {}) =>
        /\ calls = <<>>
        /\ assembly = "none"
        /\ disk = disk0
        /\ pc \in {"start", "process", "main", "done"}
        /\ pc = "done" => (signal = "no_data" /\ exitCode = 0)

\* C18 witness: a run without frame images has ended with the log present and
\* the video absent
C18_Witness ==
    /\ pc = "done"
    /\ DOMAIN disk0 = {}
    /\ logExists
    /\ ~videoExists
    /\ signal = "no_data"

\* the sequence is non-decreasing
NonDecreasing(ts_list) ==
    \A p \in 1..Len(ts_list), q \in 1..Len(ts_list) : p < q => ts_list[p] <= ts_list[q]

\* C19: once the log is read, each key's sample sequence lists exactly the
\* timestamps of the well-formed rows with that rounded Z, in the order of the
\* log, is non-empty, and is non-decreasing in time; a malformed row
\* contributes to no key.
C19_SamplesInLogAndTimeOrder ==
    pc = "filter" =>
        /\ DOMAIN layer_timestamps_raw = { NearestKey(log[i].z) : i \in WellFormed }
        /\ \A k \in DOMAIN layer_timestamps_raw :
              /\ layer_timestamps_raw[k] = ExpectedSamples(k)
              /\ layer_timestamps_raw[k] # <<>>
              /\ NonDecreasing(layer_timestamps_raw[k])

\* the run is in, or has been through, the extraction
PerformsExtraction ==
    pc \in {"extract", "recover", "retry", "final"} \/ calls # <<>>

\* C20: in a run that performs extraction the frame directory never holds
\* more image files than the StableLayerSet has keys (nor more than the
\* initial pass has attempted), during the initial pass and the recovery
\* alike, so the detection loop never meets a frame index beyond the keys.
C20_FramesNeverExceedKeys ==
    PerformsExtraction =>
        /\ Cardinality(DOMAIN disk) <= Len(SortedStableKeys)
        /\ Cardinality(DOMAIN disk) <= frame_count
        /\ Len(frame_paths) <= Len(SortedStableKeys)
        /\ (pc = "recover" /\ fi < Len(frame_paths)) => fi < Len(SortedStableKeys)

\* C20 witness: the recovery is over in a run with fewer frame images than
\* keys, after an initial extraction left no file and a frame was retried
C20_Witness ==
    /\ pc = "final"
    /\ 1 <= Len(frame_paths)
    /\ Len(frame_paths) < Len(SortedStableKeys)
    /\ \E j \in 1..Len(calls) : calls[j].phase = "retry"

\* every answer the monitor holds reports a terminal state
TerminalReported == status.ok => status.state \in {"FINISHED", "ERROR", "CANCELED"}

\* the monitor has just got an answer from the status API
PollSucceeded == mpc \in {"wait_check", "log_check"} /\ status.ok

\* the monitor has stopped polling and its process has ended
MonitorTerminated == mpc \in {"exited", "finished"}

\* C21: in the wait for the start conditions and in the active logging alike,
\* if from some poll on the printer reports FINISHED, ERROR or CANCELED and
\* the polls keep succeeding, the monitor eventually stops polling and
\* terminates.
C21_TerminalStateStopsMonitor ==
    (<>[]TerminalReported /\ []<>(PollSucceeded \/ MonitorTerminated))
        => <>MonitorTerminated

\* the start conditions on one poll, against the targets bed and nozzle
StartConditionsMet(poll, bed, nozzle) ==
    /\ poll.ok
    /\ poll.axis_z < MonitorDefaults.REQUIRED_Z_CAPTURE_POS - 2
    /\ poll.temp_bed >= bed - 2
    /\ poll.temp_nozzle >= nozzle - 2
    /\ nozzle >= 190
    /\ poll.state \notin {"FINISHED", "ERROR"}

\* the targets are those the poll reported, where it reported any
TargetsOfPoll(poll, bed, nozzle) ==
    /\ poll.target_bed > 0 => bed = poll.target_bed
    /\ poll.target_nozzle > 0 => nozzle = poll.target_nozzle

\* C22: recording and logging start only on one successful poll that shows
\* Z < requiredZ - 2, bed >= bed target - 2, nozzle >= nozzle target - 2,
\* nozzle target >= 190 and a state other than FINISHED and ERROR, the
\* targets being those in force after that poll (its own where it reports
\* them); before such a poll nothing is recorded or logged, and a poll that
\* reports FINISHED or ERROR ends the monitor without recording.
C22_StartOnlyOnGoodPoll ==
    /\ mpc \in {"wait_poll", "wait_check", "exited"} =>
          (~recording /\ ~started.ok /\ ~print_log_exists /\ log_buffer = <<>>)
    /\ mpc = "exited" => (status.ok /\ status.state \in {"FINISHED", "ERROR"})
    /\ mpc = "start" =>
          /\ ~recording
          /\ StartConditionsMet(status, required_bed_temp, required_nozzle_temp)
          /\ TargetsOfPoll(status, required_bed_temp, required_nozzle_temp)
    /\ (recording \/ started.ok \/ print_log_exists) =>
          /\ started.ok
          /\ StartConditionsMet(started.poll, started.bed, started.nozzle)
          /\ TargetsOfPoll(started.poll, started.bed, started.nozzle)

\* C22 witness: recording has started on a poll with Z, bed and nozzle at the
\* edge of their conditions, after an earlier poll that set the bed target
C22_Witness ==
    /\ mpc = "log_poll"
    /\ recording
    /\ started.poll.state = "PRINTING"
    /\ started.poll.axis_z = 7
    /\ started.poll.target_bed = 0
    /\ started.bed = 60
    /\ started.poll.temp_bed = 58
    /\ started.poll.temp_nozzle = 218
    /\ started.nozzle = 220

\* the data records of a log
DataRows(rows) == SelectSeq(rows, LAMBDA row : row.kind = "data")

\* the log is empty, or is one header row followed by data records only
HeaderFirstAndOnce(rows) ==
    rows # <<>> =>
        /\ rows[1] = HeaderRow
        /\ \A i \in 2..Len(rows) : rows[i].kind = "data"

\* C23: after any number of monitor runs on one session directory, however
\* each of them ended, a log to which anything was appended has exactly one
\* header row, which is its first row, and every later row is a data record;
\* a data record is added only by a successful poll of the logging loop.
C23_OneHeaderFirst ==
    /\ [](/\ HeaderFirstAndOnce(print_log)
          /\ HeaderFirstAndOnce(print_log \o log_buffer)
          /\ \A i \in 1..Len(log_buffer) : log_buffer[i] = HeaderRow)
    /\ [][DataRows(print_log') # DataRows(print_log) =>
            /\ mpc = "log_check"
            /\ status.ok
            /\ DataRows(print_log') =
                 Append(DataRows(print_log), DataRow(elapsed + 1, status))]_vars

\* C23 witness: a later monitor run, its clock started again, has appended
\* its records to the log an earlier run wrote, and has ended
C23_Witness ==
    /\ mpc = "finished"
    /\ runs >= 1
    /\ Len(print_log) >= 3
    /\ \E i \in 2..Len(print_log), j \in 2..Len(print_log) :
          i < j /\ print_log[j].ts <= print_log[i].ts

====
